---- MODULE Spec2Model ----
(***************************************************************************)
(* A model of the browser client of agentix-fastapi: the account-token    *)
(* store and identity session (AuthContext), the session registry         *)
(* (SessionContext) and the request interceptor (lib/api).                *)
(*                                                                         *)
(* The server is the environment. It handles a request at the moment the  *)
(* client sends it; the response then stays in flight and is delivered to *)
(* the client at any later step, in any order with the other responses.   *)
(* A React callback reads the state of the render it was created in: the  *)
(* values it captures when it is called travel with its request.          *)
(***************************************************************************)
EXTENDS Integers, Sequences, FiniteSets, Bags, TLC

\* ------------------------------------------------------------------ bounds
MaxIds == 2        \* session ids the server hands out in one run
MaxFlights == 2    \* requests in flight at the same time
MaxTime == 2       \* clock ticks
MaxOps == 3        \* operations the user starts in one run
MaxStreams == 2    \* chat submissions in one run
MaxFrames == 3     \* records the server sends on one stream

\* ------------------------------------------------------------- vocabulary
Null == "null"                      \* JS null / absent localStorage item
NoExpiry == -1                      \* no 'authTokenExpiry' item
AccountTokens == {"U1", "U2"}
IdStrs == <<"1", "2", "3", "4", "5", "6">>
TokStrs == <<"S1", "S2", "S3", "S4", "S5", "S6">>
Ids == 1..MaxIds
IdStr(i) == IdStrs[i]
SessTok(i) == TokStrs[i]
SessionTokens == {SessTok(i) : i \in Ids}
\* display names are sequences of characters
Placeholder == <<"U", "n", "t", "i", "t", "l", "e", "d", " ", "C", "h", "a", "t">>
NoName == <<>>
Identity == "u1"

\* SessionInfo (SessionContext.tsx:14-18); NoSession stands for null
NoSession == [session_id |-> 0, name |-> NoName, token |-> Null]
Session(i, n) == [session_id |-> i, name |-> n, token |-> SessTok(i)]

Last(s) == s[Len(s)]
IdsOf(s) == {s[i].session_id : i \in 1..Len(s)}

VARIABLES
    now,                 \* the wall clock
    userToken, user, isLoading,                       \* AuthProvider state
    lsAuthToken, lsAuthTokenExpiry,                   \* localStorage
    lsActiveId, lsActiveInfo,                         \* localStorage
    sessions, activeSessionInfo,                      \* SessionProvider state
    effectToken,         \* userToken the SessionProvider effect last ran for
    srvSessions, srvNext,                             \* the server's sessions
    flights,             \* responses in flight, with what their callers captured
    lastReq,             \* the last request as it left the interceptor
    ev,                  \* what the last step was (operation returned, request sent)
    ops,                 \* operations the user has started
    messages,            \* ChatProvider state
    input, isSending,    \* ChatInterface state
    abortRef,            \* abortControllerRef: the stream it can abort (0: null)
    chatMounted,         \* a ChatInterface is mounted
    instance,            \* which ChatInterface instance the state above belongs to
    streams,             \* the submissions made so far
    chatEffect,          \* activeSessionInfo the ChatProvider effect last ran for
    isLoadingMessages    \* ChatProvider state

authVars == <<userToken, user, isLoading, lsAuthToken, lsAuthTokenExpiry>>
regVars == <<sessions, activeSessionInfo, effectToken>>
activeLs == <<lsActiveId, lsActiveInfo>>
srvVars == <<srvSessions, srvNext>>
historyVars == <<chatEffect, isLoadingMessages>>
chatVars == <<messages, input, isSending, abortRef, chatMounted, instance, streams,
             chatEffect, isLoadingMessages>>
vars == <<now, userToken, user, isLoading, lsAuthToken, lsAuthTokenExpiry,
          lsActiveId, lsActiveInfo, sessions, activeSessionInfo,
          effectToken, srvSessions, srvNext, flights,
          lastReq, ev, ops, messages, input, isSending, abortRef,
          chatMounted, instance, streams, chatEffect, isLoadingMessages>>

\* ------------------------------------------------------ request interceptor
\* URLs are the path below /api/v1, cut at the slashes.
UrlMe == <<"auth", "me">>
UrlSessions == <<"auth", "sessions">>
UrlSession == <<"auth", "session">>
UrlSessionId(i) == <<"auth", "session", IdStr(i)>>
UrlSessionName(i) == <<"auth", "session", IdStr(i), "name">>
UrlMessages == <<"chatbot", "messages">>
UrlStream == <<"chatbot", "chat", "stream">>
UrlLogin == <<"auth", "login">>

IsChatbotUrl(url) == Len(url) >= 1 /\ url[1] = "chatbot"
IsAccountUrl(url) ==
    \/ url = UrlMe
    \/ (Len(url) >= 2 /\ url[1] = "auth" /\ url[2] = "sessions")
    \/ url = UrlSession
    \/ (Len(url) >= 3 /\ url[1] = "auth" /\ url[2] = "session")

\* a routing table with the account token on every routed URL
RouterTokenAccountEverywhere(url, method, authTok, activeInfo) ==
    IF IsChatbotUrl(url) \/ IsAccountUrl(url) THEN authTok ELSE Null

\* config.method?.toLowerCase()
ToLowerCase(method) == IF method = "PATCH" THEN "patch" ELSE method

\* the token the routing table selects (Null: none)
RouterToken(url, method, authTok, activeInfo) ==
    IF IsChatbotUrl(url)
    THEN activeInfo.token
    ELSE IF IsAccountUrl(url)
         THEN (IF ToLowerCase(method) # "patch" THEN authTok ELSE Null)
         ELSE Null

\* an Authorization header: `Bearer ${token}`, or none
NoHeader == <<>>
Bearer(token) == <<"Bearer", token>>
AccountBearers == {Bearer(t) : t \in AccountTokens}
SessionBearers == {Bearer(t) : t \in SessionTokens}

\* an interceptor that formats the header from whatever the table selected
AuthHeaderUnguarded(token, callerAuth) ==
    IF callerAuth = NoHeader THEN Bearer(token) ELSE callerAuth

\* an interceptor that sets the header whenever the table selects a token
AuthHeaderOverwrite(token, callerAuth) ==
    IF token # Null THEN Bearer(token) ELSE callerAuth

\* the Authorization header after the interceptor; callerAuth is the header the
\* caller set
AuthHeader(token, callerAuth) ==
    IF token # Null /\ callerAuth = NoHeader THEN Bearer(token) ELSE callerAuth

Intercept(url, method, callerAuth) ==
    AuthHeader(RouterToken(url, method, lsAuthToken, lsActiveInfo), callerAuth)

\* an expiry test that still accepts the instant of expiry
ExpiredStrictly(expiry) == expiry = NoExpiry \/ expiry < now

\* whether a stored account token is past its stored expiry
Expired(expiry) == expiry = NoExpiry \/ expiry <= now

\* the request as it leaves the interceptor; expired records whether the stored
\* account-token expiry had passed at that moment
Req(url, method, callerAuth) ==
    [url |-> url, method |-> method, caller |-> callerAuth,
     auth |-> Intercept(url, method, callerAuth),
     expired |-> Expired(lsAuthTokenExpiry)]
NoReq == [url |-> <<>>, method |-> "", caller |-> NoHeader, auth |-> NoHeader,
          expired |-> FALSE]

\* the same with the storage the step has just written (login stores the pair
\* before its request goes out)
ReqWith(url, method, callerAuth, authTok, expiry) ==
    [url |-> url, method |-> method, caller |-> callerAuth,
     auth |-> AuthHeader(RouterToken(url, method, authTok, lsActiveInfo), callerAuth),
     expired |-> Expired(expiry)]

\* a request made with fetch, which the interceptor never sees
Direct(url, method, callerAuth) ==
    [url |-> url, method |-> method, caller |-> callerAuth, auth |-> callerAuth,
     expired |-> Expired(lsAuthTokenExpiry)]

\* ------------------------------------------------------------------ events
\* ev tells what the last step was: which public operation returned in it (or
\* which chained request it sent) and with what outcome.
\*   ok        the operation's last request succeeded
\*   sid       the session id the operation was called with
\*   only      deleteSession was called on the active session, the only one listed
\*   wasEmpty  the list was empty just before the step
NoEv == [op |-> "none", ok |-> FALSE, sid |-> 0, only |-> FALSE, wasEmpty |-> FALSE]
Ev(op, ok, sid, only, wasEmpty) ==
    [op |-> op, ok |-> ok, sid |-> sid, only |-> only, wasEmpty |-> wasEmpty]

\* ----------------------------------------------------------------- flights
\* a request in flight: the request, the answer the server has given, and what
\* the calling closure captured
Flight(op, origin, req, ok, data, sid, name, cSessions, cActive, cToken, only) ==
    [op |-> op, origin |-> origin, req |-> req, ok |-> ok, data |-> data,
     sid |-> sid, name |-> name, cSessions |-> cSessions, cActive |-> cActive,
     cToken |-> cToken, only |-> only]

\* flights is a bag: responses come back in any order
InFlight == BagToSet(flights)
NumFlights == BagCardinality(flights)
Sent(f) == flights (+) SetToBag({f})
\* a response that nothing takes off the wire
SettledNever(f) == flights
Settled(f) == flights (-) SetToBag({f})

\* ------------------------------------------------------------- the server
\* The server answers a request only when it carries the credential the
\* endpoint asks for; any request may also fail on the way.
Outcomes(accepted) == IF accepted THEN {TRUE, FALSE} ELSE {FALSE}

\* an account token the server still honours
AccountAuth(req) == req.auth \in AccountBearers /\ ~req.expired

\* one more operation started by the user
UserOp == ops < MaxOps /\ ops' = ops + 1

\* -------------------------------------------------------------- AuthContext
isAuthenticated == userToken # Null /\ user # Null

\* login: store the pair, hold the token, GET /me
login(newToken, expiresAt) ==
    /\ NumFlights < MaxFlights
    /\ lsAuthToken' = newToken
    /\ lsAuthTokenExpiry' = expiresAt
    /\ userToken' = newToken
    /\ LET req == ReqWith(UrlMe, "get", NoHeader, newToken, expiresAt)
       IN \E ok \in Outcomes(AccountAuth(req)) :
            flights' = Sent(Flight("me", "login", req, ok, <<>>, 0, NoName, <<>>,
                                   NoSession, newToken, FALSE))
    /\ ev' = [NoEv EXCEPT !.op = "loginSent"]
    /\ UserOp
    /\ UNCHANGED <<now, user, isLoading, activeLs, regVars, srvVars, lastReq,
                   chatVars>>

\* checkAuth up to its await, or to its end when it makes no request
checkAuth ==
    /\ NumFlights < MaxFlights
    /\ IF lsAuthToken # Null /\ lsAuthTokenExpiry # NoExpiry
       THEN IF ~Expired(lsAuthTokenExpiry)
            THEN /\ userToken' = lsAuthToken
                 /\ isLoading' = TRUE
                 /\ LET req == Req(UrlMe, "get", NoHeader)
                    IN \E ok \in Outcomes(AccountAuth(req)) :
                        flights' = Sent(Flight("me", "checkAuth", req, ok, <<>>, 0,
                                               NoName, <<>>, NoSession, lsAuthToken,
                                               FALSE))
                 /\ ev' = [NoEv EXCEPT !.op = "checkAuthSent"]
                 /\ UNCHANGED <<user, lsAuthToken, lsAuthTokenExpiry>>
            ELSE /\ lsAuthToken' = Null
                 /\ lsAuthTokenExpiry' = NoExpiry
                 /\ userToken' = Null
                 /\ user' = Null
                 /\ isLoading' = FALSE
                 /\ ev' = [NoEv EXCEPT !.op = "checkAuthPurged"]
                 /\ UNCHANGED flights
       ELSE /\ userToken' = Null
            /\ user' = Null
            /\ isLoading' = FALSE
            /\ ev' = [NoEv EXCEPT !.op = "checkAuthNothing"]
            /\ UNCHANGED <<flights, lsAuthToken, lsAuthTokenExpiry>>
    /\ UserOp
    /\ UNCHANGED <<now, activeLs, regVars, srvVars, lastReq,
                   chatVars>>

\* GET /me answers with the account of the bearer token; the two account
\* tokens belong to two accounts
IdentityOf(auth) == IF auth = Bearer("U2") THEN "u2" ELSE Identity

\* a catch block that keeps the identity it finds
FetchedUserStale(f) == IF f.ok THEN IdentityOf(f.req.auth) ELSE user

\* what fetchUserDetails sets the identity to: setUser({id, email}) of the
\* response when the request succeeded, setUser(null) in its catch block
FetchedUser(f) == IF f.ok THEN IdentityOf(f.req.auth) ELSE Null

\* fetchUserDetails after its await, and the rest of its caller
MeResponse(f) ==
    /\ f \in InFlight
    /\ f.op = "me"
    /\ user' = FetchedUser(f)
    /\ isLoading' = IF f.origin = "checkAuth" THEN FALSE ELSE isLoading
    /\ flights' = Settled(f)
    /\ ev' = [NoEv EXCEPT !.op = IF f.origin = "checkAuth"
                                 THEN "checkAuthReturn" ELSE "loginReturn",
                          !.ok = f.ok]
    /\ UNCHANGED <<ops, now, userToken, lsAuthToken, lsAuthTokenExpiry, activeLs,
                   regVars, srvVars, lastReq,
                   chatVars>>

\* a logout that leaves the active-session items to the registry
RemoveActiveItemsLater == UNCHANGED activeLs

\* removeItem('activeSessionId'), removeItem('activeSessionInfo')
RemoveActiveItems ==
    /\ lsActiveId' = 0
    /\ lsActiveInfo' = NoSession

logout ==
    /\ lsAuthToken' = Null
    /\ lsAuthTokenExpiry' = NoExpiry
    /\ RemoveActiveItems
    /\ userToken' = Null
    /\ user' = Null
    /\ ev' = [NoEv EXCEPT !.op = "logout"]
    /\ UserOp
    /\ UNCHANGED <<now, isLoading, regVars, srvVars, flights, lastReq,
                   chatVars>>

\* the clock advances
Tick ==
    /\ now < MaxTime
    /\ now' = now + 1
    /\ ev' = NoEv
    /\ UNCHANGED <<ops, authVars, activeLs, regVars, srvVars, flights, lastReq,
                   chatVars>>

\* ----------------------------------------------------------- SessionContext
\* name || 'Untitled Chat'
DefaultName(n) == IF n = NoName THEN Placeholder ELSE n

\* a trim that removes nothing
TrimNothing(text) == text

\* String.prototype.trim
RECURSIVE TrimLeft(_)
TrimLeft(n) == IF n # <<>> /\ Head(n) = " " THEN TrimLeft(Tail(n)) ELSE n
RECURSIVE TrimRight(_)
TrimRight(n) ==
    IF n # <<>> /\ Last(n) = " " THEN TrimRight(SubSeq(n, 1, Len(n) - 1)) ELSE n
Trim(n) == TrimRight(TrimLeft(n))

\* a rename that stores the name as it was typed
SanitizedNameRaw(newName) == newName

\* newName.trim() || "Untitled Chat"
SanitizedName(newName) == DefaultName(Trim(newName))

WithDefaultNames(list) ==
    [i \in 1..Len(list) |-> [list[i] EXCEPT !.name = DefaultName(@)]]

\* a lookup that takes the first entry, whatever its id
FindSessionFirst(list, id) == IF list = <<>> THEN NoSession ELSE list[1]

\* Array.prototype.find on session_id; NoSession when there is none
FindSession(list, id) ==
    LET hits == {i \in 1..Len(list) : list[i].session_id = id}
    IN IF hits = {} THEN NoSession
       ELSE list[CHOOSE i \in hits : \A j \in hits : i <= j]

\* a restoration that forgets the remembered id and takes the newest
SessionToActivateNewest(fetched, storedId) ==
    IF Len(fetched) > 0 THEN Last(fetched) ELSE NoSession

\* the session fetchSessions activates: the remembered one, else the newest
SessionToActivate(fetched, storedId) ==
    LET found == IF storedId # 0 THEN FindSession(fetched, storedId) ELSE NoSession
    IN IF found = NoSession /\ Len(fetched) > 0 THEN Last(fetched) ELSE found

\* a creation that leaves the list as it was
AppendSessionDropped(prev, newSession) == prev

\* a creation that puts the new session first
AppendSessionFirst(prev, newSession) == <<newSession>> \o prev

\* setSessions(prev => [...prev, newSession])
AppendSession(prev, newSession) == Append(prev, newSession)

\* sessions.filter(s => s.session_id !== sessionId)
RECURSIVE RemainingSessions(_, _)
RemainingSessions(list, id) ==
    IF list = <<>> THEN <<>>
    ELSE IF Head(list).session_id # id
         THEN <<Head(list)>> \o RemainingSessions(Tail(list), id)
         ELSE RemainingSessions(Tail(list), id)

\* sessions.map(s => s.session_id === sessionId ? updatedSession : s)
RenamedSessions(list, id, updated) ==
    [i \in 1..Len(list) |-> IF list[i].session_id = id THEN updated ELSE list[i]]

\* the session deleteSession activates after it removed the active one
NewestOf(remaining) == IF Len(remaining) > 0 THEN Last(remaining) ELSE NoSession

\* a switch that changes the state and leaves localStorage alone
SwitchToUnpersisted(s) ==
    /\ activeSessionInfo' = s
    /\ UNCHANGED activeLs

\* a switch that persists the id and not the blob
SwitchToIdOnly(s) ==
    /\ activeSessionInfo' = s
    /\ lsActiveId' = s.session_id
    /\ UNCHANGED lsActiveInfo

\* switchActiveSession: the state and both localStorage items
SwitchTo(s) ==
    /\ activeSessionInfo' = s
    /\ lsActiveId' = s.session_id
    /\ lsActiveInfo' = s

\* createNewSessionFn up to its await: the request and the server's side of it
SendCreate(rest, origin, cToken, only, sid) ==
    LET req == Req(UrlSession, "post", NoHeader)
        made == Session(srvNext, NoName)
    IN \E ok \in Outcomes(AccountAuth(req) /\ srvNext <= MaxIds) :
         /\ flights' = rest (+) SetToBag({
               Flight("create", origin, req, ok, IF ok THEN <<made>> ELSE <<>>,
                      sid, NoName, <<>>, NoSession, cToken, only)})
         /\ srvSessions' = IF ok THEN Append(srvSessions, made) ELSE srvSessions
         /\ srvNext' = IF ok THEN srvNext + 1 ELSE srvNext

\* React runs the pending effects of a render before it handles a user event
EffectsFlushed == effectToken = userToken

\* createNewSession called by the user (the New Chat button)
createNewSession ==
    /\ EffectsFlushed
    /\ IF userToken = Null
       THEN /\ ev' = Ev("createNoToken", FALSE, 0, FALSE, sessions = <<>>)
            /\ UNCHANGED <<flights, srvVars>>
       ELSE /\ NumFlights < MaxFlights
            /\ SendCreate(flights, "user", userToken, FALSE, 0)
            /\ ev' = NoEv
    /\ UserOp
    /\ UNCHANGED <<now, authVars, activeLs, regVars, lastReq,
                   chatVars>>

\* createNewSessionFn after its await, and the return of the operation that
\* awaited it
CreateResponse(f) ==
    /\ f \in InFlight
    /\ f.op = "create"
    /\ LET newSession == [f.data[1] EXCEPT !.name = DefaultName(@)]
       IN IF f.ok
          THEN /\ sessions' = AppendSession(sessions, newSession)
               /\ SwitchTo(newSession)
          ELSE UNCHANGED <<sessions, activeSessionInfo, activeLs>>
    /\ ev' = Ev(IF f.origin = "fetch" THEN "fetchHealReturn"
                ELSE IF f.origin = "delete" THEN "deleteHealReturn"
                ELSE "createReturn",
                f.ok, f.sid, f.only, sessions = <<>>)
    /\ flights' = Settled(f)
    /\ UNCHANGED <<ops, now, authVars, effectToken, srvVars, lastReq,
                   chatVars>>

\* fetchSessions up to its await, or to its end without a token
FetchSessionsStart ==
    IF userToken = Null
    THEN /\ sessions' = <<>>
         /\ SwitchTo(NoSession)
         /\ ev' = Ev("fetchNoToken", FALSE, 0, FALSE, sessions = <<>>)
         /\ UNCHANGED flights
    ELSE /\ NumFlights < MaxFlights
         /\ LET req == Req(UrlSessions, "get", NoHeader)
            IN \E ok \in Outcomes(AccountAuth(req)) :
                 flights' = Sent(Flight("list", "user", req, ok,
                                        IF ok THEN srvSessions ELSE <<>>,
                                        0, NoName, <<>>, NoSession, userToken, FALSE))
         /\ ev' = NoEv
         /\ UNCHANGED <<sessions, activeSessionInfo, activeLs>>

fetchSessions ==
    /\ EffectsFlushed
    /\ FetchSessionsStart
    /\ UserOp
    /\ UNCHANGED <<now, authVars, effectToken, srvVars, lastReq,
                   chatVars>>

\* the effect of SessionProvider: runs when userToken has changed
TokenEffect ==
    /\ effectToken # userToken
    /\ effectToken' = userToken
    /\ FetchSessionsStart
    /\ UNCHANGED <<ops, now, authVars, srvVars, lastReq,
                   chatVars>>

\* whether fetchSessions goes on to createNewSessionFn
HealAfterFetch(listOk, fetchedSessions) == Len(fetchedSessions) = 0

\* fetchSessions after its await, to its end or to the await of the chained creation
ListResponse(f) ==
    /\ f \in InFlight
    /\ f.op = "list"
    /\ LET fetchedSessions == IF f.ok THEN WithDefaultNames(f.data) ELSE <<>>
       IN /\ sessions' = fetchedSessions
          /\ SwitchTo(IF f.ok THEN SessionToActivate(fetchedSessions, lsActiveId)
                      ELSE NoSession)
          /\ IF HealAfterFetch(f.ok, fetchedSessions)
             THEN /\ SendCreate(Settled(f), "fetch", f.cToken, FALSE, 0)
                  /\ ev' = Ev("fetchHealSent", f.ok, 0, FALSE, sessions = <<>>)
             ELSE /\ flights' = Settled(f)
                  /\ ev' = Ev("fetchReturn", f.ok, 0, FALSE, sessions = <<>>)
                  /\ UNCHANGED srvVars
    /\ UNCHANGED <<ops, now, authVars, effectToken, lastReq,
                   chatVars>>

\* switchActiveSession with an entry of the list (the sidebar)
switchActiveSession(s) ==
    /\ EffectsFlushed
    /\ \E i \in 1..Len(sessions) : sessions[i] = s
    /\ SwitchTo(s)
    /\ ev' = [NoEv EXCEPT !.op = "switch", !.sid = s.session_id]
    /\ UserOp
    /\ UNCHANGED <<now, authVars, sessions, effectToken, srvVars, flights, lastReq,
                   chatVars>>

\* names the rename dialog may submit: nothing but white space, and a name
\* with white space around it
BlankName == <<" ">>
PaddedName == <<" ", "a">>

\* the name the server may echo for a rename: the one it was sent, or none
EchoedNames(sent) == {sent, NoName}

\* the server's list after it renamed a session
SrvRenamed(id, n) ==
    [i \in 1..Len(srvSessions) |->
        IF srvSessions[i].session_id = id
        THEN [srvSessions[i] EXCEPT !.name = n] ELSE srvSessions[i]]

\* renameSession up to its await, or to its end when the session has no token;
\* echo is the name in the server's answer
renameSession(sessionId, newName, echo) ==
    /\ EffectsFlushed
    /\ LET sessionToRename == FindSession(sessions, sessionId)
           token == sessionToRename.token
           sanitizedName == SanitizedName(newName)
           req == Req(UrlSessionName(sessionId), "patch", Bearer(token))
       IN IF token = Null
          THEN /\ ev' = NoEv
               /\ UNCHANGED <<flights, srvVars>>
          ELSE /\ NumFlights < MaxFlights
               /\ \E ok \in Outcomes(req.auth = Bearer(SessTok(sessionId))
                                     /\ sessionId \in IdsOf(srvSessions)) :
                    /\ flights' = Sent(
                          Flight("rename", "user", req, ok,
                                 IF ok THEN <<Session(sessionId, echo)>> ELSE <<>>,
                                 sessionId, newName, sessions, activeSessionInfo,
                                 Null, FALSE))
                    /\ srvSessions' = IF ok THEN SrvRenamed(sessionId, sanitizedName)
                                      ELSE srvSessions
               /\ ev' = NoEv
               /\ UNCHANGED srvNext
    /\ UserOp
    /\ UNCHANGED <<now, authVars, activeLs, regVars, lastReq,
                   chatVars>>

\* renameSession after its await; f.name is the newName it was called with
RenameResponse(f) ==
    /\ f \in InFlight
    /\ f.op = "rename"
    /\ LET updatedSession == [f.data[1] EXCEPT !.name = SanitizedName(f.name)]
       IN IF f.ok
          THEN /\ sessions' = RenamedSessions(f.cSessions, f.sid, updatedSession)
               /\ IF f.cActive.session_id = f.sid
                  THEN SwitchTo(updatedSession)
                  ELSE UNCHANGED <<activeSessionInfo, activeLs>>
          ELSE UNCHANGED <<sessions, activeSessionInfo, activeLs>>
    /\ ev' = Ev("renameReturn", f.ok, f.sid, FALSE, sessions = <<>>)
    /\ flights' = Settled(f)
    /\ UNCHANGED <<ops, now, authVars, effectToken, srvVars, lastReq,
                   chatVars>>

\* deleteSession up to its await, or to its end when the session has no token
deleteSession(sessionId) ==
    /\ EffectsFlushed
    /\ LET sessionToDelete == FindSession(sessions, sessionId)
           token == sessionToDelete.token
           req == Req(UrlSessionId(sessionId), "delete", Bearer(token))
       IN IF token = Null
          THEN /\ ev' = NoEv
               /\ UNCHANGED <<flights, srvVars>>
          ELSE /\ NumFlights < MaxFlights
               /\ \E ok \in Outcomes(req.auth = Bearer(SessTok(sessionId))
                                     /\ sessionId \in IdsOf(srvSessions)) :
                    /\ flights' = Sent(
                          Flight("delete", "user", req, ok, <<>>, sessionId, NoName,
                                 sessions, activeSessionInfo, userToken,
                                 Len(sessions) = 1
                                 /\ activeSessionInfo.session_id = sessionId))
                    /\ srvSessions' = IF ok THEN RemainingSessions(srvSessions, sessionId)
                                      ELSE srvSessions
               /\ ev' = NoEv
               /\ UNCHANGED srvNext
    /\ UserOp
    /\ UNCHANGED <<now, authVars, activeLs, regVars, lastReq,
                   chatVars>>

\* whether deleteSession goes on to createNewSessionFn
HealAfterDelete(wasActive, remaining) == wasActive /\ Len(remaining) = 0

\* deleteSession after its await, to its end or to the await of the chained
\* creation (createNewSessionFn returns at once when it captured no token)
DeleteResponse(f) ==
    /\ f \in InFlight
    /\ f.op = "delete"
    /\ LET remainingSessions == RemainingSessions(f.cSessions, f.sid)
           wasActive == f.cActive.session_id = f.sid
           heal == f.ok /\ HealAfterDelete(wasActive, remainingSessions)
                        /\ f.cToken # Null
       IN /\ IF f.ok
             THEN /\ sessions' = remainingSessions
                  /\ IF wasActive
                     THEN SwitchTo(NewestOf(remainingSessions))
                     ELSE UNCHANGED <<activeSessionInfo, activeLs>>
             ELSE UNCHANGED <<sessions, activeSessionInfo, activeLs>>
          /\ IF heal
             THEN /\ SendCreate(Settled(f), "delete", f.cToken, f.only, f.sid)
                  /\ ev' = Ev("deleteHealSent", TRUE, f.sid, f.only, sessions = <<>>)
             ELSE /\ flights' = Settled(f)
                  /\ ev' = Ev("deleteReturn", f.ok, f.sid, f.only, sessions = <<>>)
                  /\ UNCHANGED srvVars
    /\ UNCHANGED <<ops, now, authVars, effectToken, lastReq,
                   chatVars>>

\* ------------------------------------------------------------ specification
\* the requests the bounds allow in flight
ListFlights == {f \in InFlight : f.op = "list"}
CreateFlights == {f \in InFlight : f.op = "create"}
RenameFlights == {f \in InFlight : f.op = "rename"}
DeleteFlights == {f \in InFlight : f.op = "delete"}
MeFlights == {f \in InFlight : f.op = "me"}

\* What earlier visits may have left behind: the server has handed out the ids
\* below srvNext and still holds the newest of them (the older ones may have
\* been deleted).
EarlierSessions(n) ==
    {[i \in 1..k |-> Session(n - 1 - k + i, NoName)] : k \in 0..(n - 1)}
StartNext == {1, 2, 3}

\* The registry while the identity stays logged in: login has completed and the
\* SessionProvider effect has not yet seen the token. The effect ran without a
\* token when the provider was mounted, so no active session is remembered.
Init ==
    /\ now = 0
    /\ userToken = "U1"
    /\ user = Identity
    /\ isLoading = FALSE
    /\ lsAuthToken = "U1"
    /\ lsAuthTokenExpiry = MaxTime
    /\ srvNext \in StartNext
    /\ srvSessions \in EarlierSessions(srvNext)
    /\ lsActiveInfo = NoSession
    /\ lsActiveId = 0
    /\ sessions = <<>>
    /\ activeSessionInfo = NoSession
    /\ effectToken = Null
    /\ flights = EmptyBag
    /\ lastReq = NoReq
    /\ ev = NoEv
    /\ ops = 0
    /\ messages = <<>>
    /\ input = <<>>
    /\ isSending = FALSE
    /\ abortRef = 0
    /\ chatMounted = TRUE
    /\ instance = 1
    /\ streams = <<>>
    /\ chatEffect = activeSessionInfo
    /\ isLoadingMessages = FALSE

Next ==
    \/ TokenEffect
    \/ fetchSessions
    \/ createNewSession
    \/ \E f \in CreateFlights : CreateResponse(f)
    \/ \E f \in ListFlights : ListResponse(f)
    \/ \E i \in 1..Len(sessions) : switchActiveSession(sessions[i])
    \/ \E id \in Ids : renameSession(id, BlankName, Placeholder)
    \/ \E f \in RenameFlights : RenameResponse(f)
    \/ \E id \in Ids : deleteSession(id)
    \/ \E f \in DeleteFlights : DeleteResponse(f)

Spec == Init /\ [][Next]_vars

\* The registry with the renames of the dialog: every list operation that
\* writes a name, and a rename with either kind of name.
NextRename ==
    \/ TokenEffect
    \/ fetchSessions
    \/ createNewSession
    \/ \E f \in CreateFlights : CreateResponse(f)
    \/ \E f \in ListFlights : ListResponse(f)
    \/ \E n \in {BlankName, PaddedName} :
          \E echo \in EchoedNames(SanitizedName(n)) : renameSession(1, n, echo)
    \/ \E f \in RenameFlights : RenameResponse(f)

SpecRename == Init /\ [][NextRename]_vars

\* The registry with the creations it makes, while the identity may log out:
\* the operations that call createNewSessionFn, and logout.
NextCreate ==
    \/ TokenEffect
    \/ fetchSessions
    \/ createNewSession
    \/ \E f \in CreateFlights : CreateResponse(f)
    \/ \E f \in ListFlights : ListResponse(f)
    \/ \E id \in Ids : deleteSession(id)
    \/ \E f \in DeleteFlights : DeleteResponse(f)
    \/ EffectsFlushed /\ logout

SpecCreate == Init /\ [][NextCreate]_vars

\* ------------------------------------------------------ the identity session
\* effectToken before the SessionProvider effect has run for the first time
Unmounted == "unmounted"

\* what localStorage may hold when the page is opened
StoredPairs ==
    {<<Null, NoExpiry>>} \cup {<<t, e>> : t \in AccountTokens, e \in 0..MaxTime}
StoredActive == {NoSession, Session(1, Placeholder)}

\* the mount effect of AuthProvider has started checkAuth
Mounted == ops > 0

\* The providers as they are constructed: nothing held, isLoading set, the
\* effects of both still to run (the SessionProvider's first, it is the child).
InitAuth ==
    /\ now = 0
    /\ userToken = Null
    /\ user = Null
    /\ isLoading = TRUE
    /\ \E pair \in StoredPairs :
          lsAuthToken = pair[1] /\ lsAuthTokenExpiry = pair[2]
    /\ lsActiveInfo \in StoredActive
    /\ lsActiveId = lsActiveInfo.session_id
    /\ sessions = <<>>
    /\ activeSessionInfo = NoSession
    /\ effectToken = Unmounted
    /\ srvNext = 1
    /\ srvSessions = <<>>
    /\ flights = EmptyBag
    /\ lastReq = NoReq
    /\ ev = NoEv
    /\ ops = 0
    /\ messages = <<>>
    /\ input = <<>>
    /\ isSending = FALSE
    /\ abortRef = 0
    /\ chatMounted = TRUE
    /\ instance = 1
    /\ streams = <<>>
    /\ chatEffect = activeSessionInfo
    /\ isLoadingMessages = FALSE

\* the server issues tokens that expire in the future; the effects of a render
\* run before the user or the clock gets a turn
NextAuth ==
    \/ TokenEffect
    \/ EffectsFlushed /\ checkAuth
    \/ \E t \in AccountTokens, e \in (now + 1)..MaxTime :
          Mounted /\ EffectsFlushed /\ login(t, e)
    \/ \E f \in MeFlights : MeResponse(f)
    \/ Mounted /\ EffectsFlushed /\ logout
    \/ EffectsFlushed /\ Tick
    \/ Mounted /\ createNewSession
    \/ \E f \in ListFlights : ListResponse(f)
    \/ \E f \in CreateFlights : CreateResponse(f)

SpecAuth == InitAuth /\ [][NextAuth]_vars

\* AuthProvider alone: its operations and the clock, the registry left as it is
NextIdentity ==
    \/ checkAuth
    \/ \E t \in AccountTokens, e \in (now + 1)..MaxTime : Mounted /\ login(t, e)
    \/ \E f \in MeFlights : MeResponse(f)
    \/ Mounted /\ logout
    \/ Tick

SpecIdentity == InitAuth /\ [][NextIdentity]_vars

\* ------------------------------------------------------------ the stream text
\* Text is a sequence of characters. "n" is the newline; DataPrefix stands for
\* the prefix 'data: ' and keeps two characters of it, so that a chunk may end
\* inside it. The JSON payload {"content": c, "done": b} is written "{" c b "}"
\* with b one of "T" and "F"; content holds no newline (JSON escapes it).
Separator == <<"n", "n">>
DataPrefix == <<"d", ":">>

\* StreamChunk
Chunk(content, done) == [kind |-> "record", content |-> content, done |-> done]
\* a record whose payload is cut short
Malformed == [kind |-> "malformed", content |-> <<>>, done |-> FALSE]

\* the server's JSON.stringify of a chunk
Json(frame) ==
    <<"{">> \o frame.content \o <<IF frame.done THEN "T" ELSE "F">> \o <<"}">>

\* the text of one record on the wire
Encode(frame) ==
    DataPrefix \o (IF frame.kind = "record" THEN Json(frame) ELSE <<"{", "H">>)
        \o Separator

\* JSON.parse of a payload: the chunk, or ok = FALSE when it throws
JsonParse(text) ==
    IF Len(text) >= 3 /\ text[1] = "{" /\ text[Len(text)] = "}"
       /\ text[Len(text) - 1] \in {"T", "F"}
    THEN [ok |-> TRUE, content |-> SubSeq(text, 2, Len(text) - 2),
          done |-> text[Len(text) - 1] = "T"]
    ELSE [ok |-> FALSE, content |-> <<>>, done |-> FALSE]

\* String.prototype.indexOf('\n\n') counted from 1; 0 when there is none
IndexOfSeparator(text) ==
    LET at == {i \in 1..(Len(text) - 1) : text[i] = "n" /\ text[i + 1] = "n"}
    IN IF at = {} THEN 0 ELSE CHOOSE i \in at : \A j \in at : i <= j

\* String.prototype.split('\n\n')
RECURSIVE Split(_)
Split(text) ==
    LET i == IndexOfSeparator(text)
    IN IF i = 0 THEN <<text>>
       ELSE <<SubSeq(text, 1, i - 1)>> \o Split(SubSeq(text, i + 2, Len(text)))

\* String.prototype.startsWith
StartsWith(text, prefix) ==
    Len(text) >= Len(prefix) /\ SubSeq(text, 1, Len(prefix)) = prefix

\* a reader that forgets the partial line at the end of a chunk
ResidualDropped(lines) == <<>>

\* buffer = lines.pop() || ''
Residual(lines) == Last(lines)

\* the lines left after lines.pop()
CompleteLines(lines) == SubSeq(lines, 1, Len(lines) - 1)

\* ------------------------------------------------------------- ChatInterface
\* Message
Msg(role, content) == [role |-> role, content |-> content]

\* what is shown for an error: `Sorry, an error occurred: ${errorMessage}`, held
\* as one character of the content
ErrorText(errorMessage) == <<"Sorry, an error occurred: " \o errorMessage>>
TokenMissing == "Session token is missing, cannot send message."
HttpError == "HTTP error!"
BodyNull == "Response body is null"
NetworkError == "network error"

\* setMessages(prev => ...) of the read loop: the delta goes to the last
\* message when that is an assistant's
AppendDelta(prev, content) ==
    IF prev # <<>> /\ Last(prev).role = "assistant"
    THEN [prev EXCEPT ![Len(prev)].content = @ \o content]
    ELSE prev

\* the body of `for (const line of lines)` for one line
ApplyLine(prev, line) ==
    IF StartsWith(line, DataPrefix)
    THEN LET chunk == JsonParse(SubSeq(line, Len(DataPrefix) + 1, Len(line)))
         IN IF chunk.ok /\ ~chunk.done THEN AppendDelta(prev, chunk.content) ELSE prev
    ELSE prev

RECURSIVE ApplyLines(_, _)
ApplyLines(prev, lines) ==
    IF lines = <<>> THEN prev
    ELSE ApplyLines(ApplyLine(prev, Head(lines)), Tail(lines))

\* a catch block that always overwrites the last message with the error text
WithErrorReplacing(prev, errorMessage) ==
    [prev EXCEPT ![Len(prev)] = Msg("assistant", ErrorText(errorMessage))]

\* setMessages(prev => ...) of the catch block
WithError(prev, errorMessage) ==
    IF prev # <<>> /\ Last(prev).role = "assistant" /\ Last(prev).content = <<>>
    THEN [prev EXCEPT ![Len(prev)] = Msg("assistant", ErrorText(errorMessage))]
    ELSE Append(prev, Msg("assistant", ErrorText(errorMessage)))

\* one submission: where it stands, the instance that made it, the token its
\* closure captured, whether its AbortController was aborted, the reader's
\* buffer, the text on the way to the reader, and what the server has sent and
\* whether it has closed the stream
NewStream ==
    [phase |-> "Sending", inst |-> instance, cToken |-> activeSessionInfo.token,
     aborted |-> FALSE, buffer |-> <<>>, wire |-> <<>>, frames |-> <<>>,
     closed |-> FALSE]

StreamIds == 1..Len(streams)

\* an abort() that aborts nothing
AbortedNone(list, k) == list

\* abortControllerRef.current?.abort()
Aborted(list, k) == IF k = 0 THEN list ELSE [list EXCEPT ![k].aborted = TRUE]

\* what the user may type
Inputs == {<<>>, <<" ">>, <<"h", "i">>}

\* onChange of the input box
TypeInput(text) ==
    /\ chatMounted
    /\ input # text
    /\ input' = text
    /\ ev' = NoEv
    /\ UNCHANGED <<ops, now, authVars, activeLs, regVars, srvVars, historyVars, flights, lastReq,
                   messages, isSending, abortRef, chatMounted, instance, streams>>

\* handleSubmit up to its first await
handleSubmit ==
    /\ chatMounted
    /\ IF Trim(input) = <<>> \/ isSending \/ activeSessionInfo = NoSession
       THEN /\ ev' = [NoEv EXCEPT !.op = "submitIgnored"]
            /\ UNCHANGED <<messages, input, isSending, abortRef, streams>>
       ELSE /\ Len(streams) < MaxStreams
            /\ streams' = Append(Aborted(streams, abortRef), NewStream)
            /\ abortRef' = Len(streams) + 1
            /\ messages' = messages \o <<Msg("user", input), Msg("assistant", <<>>)>>
            /\ input' = <<>>
            /\ isSending' = TRUE
            /\ ev' = [NoEv EXCEPT !.op = "submitAccepted"]
    /\ UNCHANGED <<ops, now, authVars, activeLs, regVars, srvVars, historyVars, flights, lastReq,
                   chatMounted, instance>>

\* a finally block that resets nothing
FinallyNothing(k) == UNCHANGED <<isSending, abortRef>>

\* the finally block: it writes the state of the instance that submitted
Finally(k) ==
    IF streams[k].inst = instance
    THEN isSending' = FALSE /\ abortRef' = 0
    ELSE UNCHANGED <<isSending, abortRef>>

\* the catch block for an Error that is no AbortError, and the finally block;
\* sent tells whether the request had gone out
Fail(k, errorMessage, sent) ==
    /\ messages' = WithError(messages, errorMessage)
    /\ streams' = [streams EXCEPT ![k].phase = "Failed"]
    /\ Finally(k)
    /\ ev' = [NoEv EXCEPT !.op = "streamFailed", !.sid = k, !.ok = sent]

\* a catch block that treats an AbortError as any other Error
CancelAsFailure(k) == Fail(k, NetworkError, TRUE)

\* the catch block for an AbortError, and the finally block
Cancel(k) ==
    /\ streams' = [streams EXCEPT ![k].phase = "Cancelled"]
    /\ Finally(k)
    /\ ev' = [NoEv EXCEPT !.op = "streamCancelled", !.sid = k]
    /\ UNCHANGED messages

\* how the fetch of the stream may end
FetchOutcomes == {"ok", "status", "nobody", "network"}

\* handleSubmit from its first await to the reader: the token, the fetch, the
\* status and the body
StreamFetch(k) ==
    /\ k \in StreamIds
    /\ streams[k].phase = "Sending"
    /\ IF streams[k].cToken = Null
       THEN Fail(k, TokenMissing, FALSE) /\ UNCHANGED lastReq
       ELSE IF streams[k].aborted
       THEN Cancel(k) /\ UNCHANGED lastReq
       ELSE /\ lastReq' = Direct(UrlStream, "POST", Bearer(streams[k].cToken))
            /\ \E outcome \in FetchOutcomes :
                 CASE outcome = "ok" ->
                        /\ streams' = [streams EXCEPT ![k].phase = "Streaming"]
                        /\ ev' = [NoEv EXCEPT !.op = "streamRequest", !.sid = k, !.ok = TRUE]
                        /\ UNCHANGED <<messages, isSending, abortRef>>
                   [] outcome = "status" -> Fail(k, HttpError, TRUE)
                   [] outcome = "nobody" -> Fail(k, BodyNull, TRUE)
                   [] outcome = "network" -> Fail(k, NetworkError, TRUE)
    /\ UNCHANGED <<ops, now, authVars, activeLs, regVars, srvVars, historyVars, flights,
                   input, chatMounted, instance>>

\* the server writes one more record to the stream
ServerSend(k, frame) ==
    /\ k \in StreamIds
    /\ streams[k].phase = "Streaming"
    /\ ~streams[k].aborted
    /\ ~streams[k].closed
    /\ Len(streams[k].frames) < MaxFrames
    /\ streams' = [streams EXCEPT ![k].wire = @ \o Encode(frame),
                                  ![k].frames = Append(@, frame)]
    /\ ev' = NoEv
    /\ UNCHANGED <<ops, now, authVars, activeLs, regVars, srvVars, historyVars, flights, lastReq,
                   messages, input, isSending, abortRef, chatMounted, instance>>

\* the server ends the stream
ServerClose(k) ==
    /\ k \in StreamIds
    /\ streams[k].phase = "Streaming"
    /\ ~streams[k].aborted
    /\ ~streams[k].closed
    /\ streams' = [streams EXCEPT ![k].closed = TRUE]
    /\ ev' = NoEv
    /\ UNCHANGED <<ops, now, authVars, activeLs, regVars, srvVars, historyVars, flights, lastReq,
                   messages, input, isSending, abortRef, chatMounted, instance>>

\* one turn of the read loop with a chunk: the first n characters on the wire
Deliver(k, n) ==
    /\ k \in StreamIds
    /\ streams[k].phase = "Streaming"
    /\ ~streams[k].aborted
    /\ n \in 1..Len(streams[k].wire)
    /\ LET value == SubSeq(streams[k].wire, 1, n)
           lines == Split(streams[k].buffer \o value)
       IN /\ streams' = [streams EXCEPT
                ![k].wire = SubSeq(@, n + 1, Len(@)),
                ![k].buffer = Residual(lines)]
          /\ messages' = ApplyLines(messages, CompleteLines(lines))
    /\ ev' = [NoEv EXCEPT !.op = "streamChunk", !.sid = k]
    /\ UNCHANGED <<ops, now, authVars, activeLs, regVars, srvVars, historyVars, flights, lastReq,
                   input, isSending, abortRef, chatMounted, instance>>

\* the read that reports done, and the finally block
EndOfData(k) ==
    /\ k \in StreamIds
    /\ streams[k].phase = "Streaming"
    /\ ~streams[k].aborted
    /\ streams[k].closed
    /\ streams[k].wire = <<>>
    /\ streams' = [streams EXCEPT ![k].phase = "Completed"]
    /\ Finally(k)
    /\ ev' = [NoEv EXCEPT !.op = "streamCompleted", !.sid = k]
    /\ UNCHANGED <<ops, now, authVars, activeLs, regVars, srvVars, historyVars, flights, lastReq,
                   messages, input, chatMounted, instance>>

\* a read that rejects because the connection broke
ReadError(k) ==
    /\ k \in StreamIds
    /\ streams[k].phase = "Streaming"
    /\ ~streams[k].aborted
    /\ Fail(k, NetworkError, TRUE)
    /\ UNCHANGED <<ops, now, authVars, activeLs, regVars, srvVars, historyVars, flights, lastReq,
                   input, chatMounted, instance>>

\* a read that rejects because the AbortController was aborted
AbortRejection(k) ==
    /\ k \in StreamIds
    /\ streams[k].phase = "Streaming"
    /\ streams[k].aborted
    /\ Cancel(k)
    /\ UNCHANGED <<ops, now, authVars, activeLs, regVars, srvVars, historyVars, flights, lastReq,
                   input, chatMounted, instance>>

\* the cleanup of the unmount effect
Unmount ==
    /\ chatMounted
    /\ chatMounted' = FALSE
    /\ streams' = Aborted(streams, abortRef)
    /\ ev' = [NoEv EXCEPT !.op = "unmount"]
    /\ UNCHANGED <<ops, now, authVars, activeLs, regVars, srvVars, historyVars, flights, lastReq,
                   messages, input, isSending, abortRef, instance>>

\* a new ChatInterface is mounted
Remount ==
    /\ ~chatMounted
    /\ instance < MaxStreams
    /\ chatMounted' = TRUE
    /\ instance' = instance + 1
    /\ input' = <<>>
    /\ isSending' = FALSE
    /\ abortRef' = 0
    /\ ev' = NoEv
    /\ UNCHANGED <<ops, now, authVars, activeLs, regVars, srvVars, historyVars, flights, lastReq,
                   messages, streams>>

\* ------------------------------------------------------ the request router
\* any request made through the axios instance
RouterCall(url, method, callerAuth) ==
    /\ lastReq' = Req(url, method, callerAuth)
    /\ ev' = [NoEv EXCEPT !.op = "request"]
    /\ UNCHANGED <<ops, now, authVars, activeLs, regVars, srvVars, flights,
                   chatVars>>

\* ChatContext.fetchMessages up to its await
fetchMessages ==
    /\ activeSessionInfo.token # Null
    /\ lastReq' = Req(UrlMessages, "get", NoHeader)
    /\ ev' = [NoEv EXCEPT !.op = "fetchMessages"]
    /\ UNCHANGED <<ops, now, authVars, activeLs, regVars, srvVars, flights,
                   chatVars>>

\* ChatContext.clearChatHistory up to its await
clearChatHistory ==
    /\ activeSessionInfo.token # Null
    /\ lastReq' = Req(UrlMessages, "delete", NoHeader)
    /\ ev' = [NoEv EXCEPT !.op = "clearChatHistory"]
    /\ UNCHANGED <<ops, now, authVars, activeLs, regVars, srvVars, flights,
                   chatVars>>

\* the inputs of the router
Urls ==
    {UrlMe, UrlSessions, UrlSession, UrlLogin, UrlMessages, UrlStream}
        \cup {UrlSessionId(i) : i \in Ids} \cup {UrlSessionName(i) : i \in Ids}
Methods == {"get", "post", "patch", "PATCH", "delete"}
CallerHeaders == {NoHeader} \cup AccountBearers \cup SessionBearers
StoredTokens == AccountTokens \cup {Null}
ActiveBlobs == {NoSession} \cup {Session(i, Placeholder) : i \in Ids}

\* The router in every state of the storage it reads: an account token or
\* none, an active session or none. The active session in the provider's state
\* and the one in localStorage agree, unless one of them is still unset.
InitRouter ==
    /\ now = 0
    /\ lsAuthToken \in StoredTokens
    /\ lsAuthTokenExpiry = IF lsAuthToken = Null THEN NoExpiry ELSE MaxTime
    /\ userToken = lsAuthToken
    /\ user = IF lsAuthToken = Null THEN Null ELSE Identity
    /\ isLoading = FALSE
    /\ lsActiveInfo \in ActiveBlobs
    /\ lsActiveId = lsActiveInfo.session_id
    /\ activeSessionInfo \in ActiveBlobs
    /\ \/ activeSessionInfo = lsActiveInfo
       \/ activeSessionInfo = NoSession
       \/ lsActiveInfo = NoSession
    /\ sessions = IF activeSessionInfo = NoSession THEN <<>> ELSE <<activeSessionInfo>>
    /\ effectToken = userToken
    /\ srvSessions = sessions
    /\ srvNext = MaxIds + 1
    /\ flights = EmptyBag
    /\ lastReq = NoReq
    /\ ev = NoEv
    /\ ops = 0
    /\ messages = <<>>
    /\ input = <<"h", "i">>
    /\ isSending = FALSE
    /\ abortRef = 0
    /\ chatMounted = TRUE
    /\ instance = 1
    /\ streams = <<>>
    /\ chatEffect = activeSessionInfo
    /\ isLoadingMessages = FALSE

\* The router keeps no state of its own, so the requests through it are taken
\* up to the one chat submission; the submission's own request follows.
NextRouter ==
    \/ \E url \in Urls, method \in Methods, callerAuth \in CallerHeaders :
          streams = <<>> /\ RouterCall(url, method, callerAuth)
    \/ streams = <<>> /\ fetchMessages
    \/ streams = <<>> /\ clearChatHistory
    \/ streams = <<>> /\ handleSubmit
    \/ \E k \in StreamIds : StreamFetch(k)

SpecRouter == InitRouter /\ [][NextRouter]_vars

\* ------------------------------------------------------------ the chat stream
\* the records a server may send
Frames ==
    {Chunk(<<"H", "e", "l">>, FALSE), Chunk(<<"l", "o">>, FALSE),
     Chunk(<<"!">>, TRUE), Chunk(<<>>, TRUE), Malformed}

\* a session whose token the server left out
TokenlessSession == [session_id |-> 1, name |-> Placeholder, token |-> Null]

\* the active session the chat may find
ChatSessions == {NoSession, Session(1, Placeholder), TokenlessSession}

\* The chat of a logged-in identity whose registry has settled: an active
\* session or none, an empty history, a message typed.
InitStream ==
    /\ now = 0
    /\ userToken = "U1"
    /\ user = Identity
    /\ isLoading = FALSE
    /\ lsAuthToken = "U1"
    /\ lsAuthTokenExpiry = MaxTime
    /\ activeSessionInfo \in ChatSessions
    /\ lsActiveInfo = activeSessionInfo
    /\ lsActiveId = activeSessionInfo.session_id
    /\ sessions = IF activeSessionInfo = NoSession THEN <<>> ELSE <<activeSessionInfo>>
    /\ effectToken = userToken
    /\ srvSessions = sessions
    /\ srvNext = 2
    /\ flights = EmptyBag
    /\ lastReq = NoReq
    /\ ev = NoEv
    /\ ops = 0
    /\ messages = <<>>
    /\ input = <<"h", "i">>
    /\ isSending = FALSE
    /\ abortRef = 0
    /\ chatMounted = TRUE
    /\ instance = 1
    /\ streams = <<>>
    /\ chatEffect = activeSessionInfo
    /\ isLoadingMessages = FALSE

\* one submission and everything its stream may bring
NextStream ==
    \/ streams = <<>> /\ handleSubmit
    \/ \E k \in StreamIds : StreamFetch(k)
    \/ \E k \in StreamIds, frame \in Frames : ServerSend(k, frame)
    \/ \E k \in StreamIds : ServerClose(k)
    \/ \E k \in StreamIds : \E n \in 1..Len(streams[k].wire) : Deliver(k, n)
    \/ \E k \in StreamIds : EndOfData(k)
    \/ \E k \in StreamIds : ReadError(k)
    \/ \E k \in StreamIds : AbortRejection(k)
    \/ Unmount

SpecStream == InitStream /\ [][NextStream]_vars

\* The chat over several submissions and instances of ChatInterface, each
\* stream carrying at most one record, which the reader gets in one chunk.
InitChat ==
    /\ InitStream
    /\ activeSessionInfo # TokenlessSession

NextChat ==
    \/ \E text \in Inputs : TypeInput(text)
    \/ handleSubmit
    \/ \E k \in StreamIds : StreamFetch(k)
    \/ \E k \in StreamIds : streams[k].frames = <<>> /\ ServerSend(k, Chunk(<<"l", "o">>, FALSE))
    \/ \E k \in StreamIds : ServerClose(k)
    \/ \E k \in StreamIds : Deliver(k, Len(streams[k].wire))
    \/ \E k \in StreamIds : EndOfData(k)
    \/ \E k \in StreamIds : ReadError(k)
    \/ \E k \in StreamIds : AbortRejection(k)
    \/ Unmount
    \/ Remount

SpecChat == InitChat /\ [][NextChat]_vars

\* a step that only the event loop or the transport has to take: the
\* continuation after the setTimeout await, the end of the body, a chunk read,
\* the read that reports done, the rejection after an abort
StreamStep(k) ==
    \/ StreamFetch(k)
    \/ ServerClose(k)
    \/ Deliver(k, Len(streams[k].wire))
    \/ EndOfData(k)
    \/ AbortRejection(k)

\* The event loop runs a continuation that is ready, and the transport
\* delivers what it holds and ends the body.
ChatFairness == WF_vars(\E k \in StreamIds : StreamStep(k))

\* The submissions of one instance of ChatInterface, one after the other, until
\* it is unmounted.
NextSubmit ==
    \/ TypeInput(<<"h", "i">>)
    \/ handleSubmit
    \/ \E k \in StreamIds : StreamFetch(k)
    \/ \E k \in StreamIds : streams[k].frames = <<>> /\ ServerSend(k, Chunk(<<"l", "o">>, FALSE))
    \/ \E k \in StreamIds : ServerClose(k)
    \/ \E k \in StreamIds : Deliver(k, Len(streams[k].wire))
    \/ \E k \in StreamIds : EndOfData(k)
    \/ \E k \in StreamIds : ReadError(k)
    \/ \E k \in StreamIds : AbortRejection(k)
    \/ Unmount

SpecSubmit == InitChat /\ [][NextSubmit]_vars /\ ChatFairness

\* --------------------------------------------------------------- ChatContext
\* the history the server keeps for a session: one turn that names it
HistoryOf(i) == <<Msg("user", <<IdStr(i)>>), Msg("assistant", <<IdStr(i)>>)>>

\* the session a bearer token belongs to; 0 when it is no session's token
SessionOfBearer(auth) ==
    IF \E i \in Ids : auth = Bearer(SessTok(i))
    THEN CHOOSE i \in Ids : auth = Bearer(SessTok(i))
    ELSE 0

\* the answers GET /api/v1/chatbot/messages may give: the history, 404 when
\* the session has none yet, or another failure
HistoryStatuses(req) ==
    IF SessionOfBearer(req.auth) \in IdsOf(srvSessions)
    THEN {"ok", "notFound", "failed"}
    ELSE {"failed"}

\* a history request in flight: sid is the session id its closure captured
HistoryFlight(req, status, data, sid) ==
    [op |-> "history", origin |-> "effect", req |-> req, status |-> status,
     data |-> data, sid |-> sid]
HistoryFlights == {f \in InFlight : f.op = "history"}

\* fetchMessages up to its await, or to its end when there is no session token
FetchMessagesStart ==
    IF activeSessionInfo.token = Null
    THEN /\ messages' = <<>>
         /\ ev' = [NoEv EXCEPT !.op = "historyNoToken"]
         /\ UNCHANGED <<isLoadingMessages, flights, lastReq>>
    ELSE /\ NumFlights < MaxFlights
         /\ isLoadingMessages' = TRUE
         /\ LET req == Req(UrlMessages, "get", NoHeader)
            IN /\ lastReq' = req
               /\ \E status \in HistoryStatuses(req) :
                     flights' = Sent(HistoryFlight(
                         req, status,
                         IF status = "ok" THEN HistoryOf(SessionOfBearer(req.auth))
                         ELSE <<>>,
                         activeSessionInfo.session_id))
         /\ ev' = [NoEv EXCEPT !.op = "historySent",
                               !.sid = activeSessionInfo.session_id]
         /\ UNCHANGED messages

\* the effect of ChatProvider: runs fetchMessages when activeSessionInfo has
\* changed (and once when the provider is mounted)
HistoryEffect ==
    /\ chatEffect # activeSessionInfo
    /\ chatEffect' = activeSessionInfo
    /\ FetchMessagesStart
    /\ UNCHANGED <<ops, now, authVars, activeLs, regVars, srvVars, input, isSending,
                   abortRef, chatMounted, instance, streams>>

\* React runs the effect before it handles a user event
HistoryFlushed == chatEffect = activeSessionInfo

\* a catch block that treats 404 as any other failure
FetchedMessagesKept(f) == IF f.status = "ok" THEN f.data ELSE messages

\* the list after the await of fetchMessages: the fetched history, the empty
\* list on 404, the list as it is on any other failure
FetchedMessages(f) ==
    IF f.status = "ok" THEN f.data
    ELSE IF f.status = "notFound" THEN <<>> ELSE messages

\* fetchMessages after its await
MessagesResponse(f) ==
    /\ f \in InFlight
    /\ f.op = "history"
    /\ messages' = FetchedMessages(f)
    /\ isLoadingMessages' = FALSE
    /\ flights' = Settled(f)
    /\ ev' = Ev(IF f.status = "notFound" THEN "historyNotFound" ELSE "historyReturn",
                f.status = "ok", f.sid, FALSE, messages = <<>>)
    /\ UNCHANGED <<ops, now, authVars, activeLs, regVars, srvVars, lastReq, input,
                   isSending, abortRef, chatMounted, instance, streams, chatEffect>>

\* the answers DELETE /api/v1/chatbot/messages may give
ClearStatuses(req) ==
    IF SessionOfBearer(req.auth) \in IdsOf(srvSessions)
    THEN {"ok", "failed"}
    ELSE {"failed"}
ClearFlights == {f \in InFlight : f.op = "clear"}

\* clearChatHistory up to its await, or to its end when there is no session
\* token (the whole operation; the request router above takes its request only)
ClearChatHistoryStart ==
    /\ IF activeSessionInfo.token = Null
       THEN /\ ev' = Ev("clearNoToken", FALSE, 0, FALSE, messages = <<>>)
            /\ UNCHANGED <<flights, lastReq>>
       ELSE /\ NumFlights < MaxFlights
            /\ LET req == Req(UrlMessages, "delete", NoHeader)
               IN /\ lastReq' = req
                  /\ \E status \in ClearStatuses(req) :
                        flights' = Sent([HistoryFlight(req, status, <<>>,
                                                       activeSessionInfo.session_id)
                                         EXCEPT !.op = "clear", !.origin = "user"])
            /\ ev' = Ev("clearSent", FALSE, activeSessionInfo.session_id, FALSE,
                        messages = <<>>)
    /\ UserOp
    /\ UNCHANGED <<now, authVars, activeLs, regVars, srvVars, chatVars>>

\* a clearChatHistory that empties the list whatever the answer
ClearedMessagesAnyway(f) == <<>>

\* the list after the await of clearChatHistory: setMessages([]) after the
\* request, nothing in the catch block
ClearedMessages(f) == IF f.status = "ok" THEN <<>> ELSE messages

\* clearChatHistory after its await
ClearResponse(f) ==
    /\ f \in InFlight
    /\ f.op = "clear"
    /\ messages' = ClearedMessages(f)
    /\ flights' = Settled(f)
    /\ ev' = Ev("clearReturn", f.status = "ok", f.sid, FALSE, messages = <<>>)
    /\ UNCHANGED <<ops, now, authVars, activeLs, regVars, srvVars, lastReq, input,
                   isSending, abortRef, chatMounted, instance, streams, historyVars>>

\* chatEffect before the ChatProvider effect has run for the first time
NotMounted == [session_id |-> 0, name |-> NoName, token |-> "unmounted"]

\* the sessions of the account, as the registry has listed them
ListedSessions == [i \in Ids |-> Session(i, Placeholder)]

\* The providers after login and the first listing: the sessions are listed,
\* one of them or none is active, the ChatProvider effect is still to run.
InitHistory ==
    /\ now = 0
    /\ userToken = "U1"
    /\ user = Identity
    /\ isLoading = FALSE
    /\ lsAuthToken = "U1"
    /\ lsAuthTokenExpiry = MaxTime
    /\ sessions = ListedSessions
    /\ activeSessionInfo \in {NoSession} \cup {sessions[i] : i \in 1..Len(sessions)}
    /\ lsActiveInfo = activeSessionInfo
    /\ lsActiveId = activeSessionInfo.session_id
    /\ effectToken = userToken
    /\ srvSessions = sessions
    /\ srvNext = MaxIds + 1
    /\ flights = EmptyBag
    /\ lastReq = NoReq
    /\ ev = NoEv
    /\ ops = 0
    /\ messages = <<>>
    /\ input = <<>>
    /\ isSending = FALSE
    /\ abortRef = 0
    /\ chatMounted = TRUE
    /\ instance = 1
    /\ streams = <<>>
    /\ chatEffect = NotMounted
    /\ isLoadingMessages = FALSE

\* the user selects sessions in the sidebar and clears the chat; the history
\* follows
NextHistory ==
    \/ HistoryEffect
    \/ \E f \in HistoryFlights : MessagesResponse(f)
    \/ \E i \in 1..Len(sessions) : HistoryFlushed /\ switchActiveSession(sessions[i])
    \/ HistoryFlushed /\ ClearChatHistoryStart
    \/ \E f \in ClearFlights : ClearResponse(f)

SpecHistory == InitHistory /\ [][NextHistory]_vars

\* the Clear Chat History button is enabled
ClearEnabled == activeSessionInfo # NoSession /\ ~isLoadingMessages /\ messages # <<>>

\* One submission while the user goes on using the sidebar and the eraser: the
\* ChatProvider of SpecHistory with the ChatInterface it serves, the first
\* session active, the stream carrying one record.
InitTurn == InitHistory /\ activeSessionInfo = sessions[1]

NextTurn ==
    \/ HistoryEffect
    \/ \E f \in HistoryFlights : MessagesResponse(f)
    \/ \E i \in 1..Len(sessions) : HistoryFlushed /\ switchActiveSession(sessions[i])
    \/ HistoryFlushed /\ ClearEnabled /\ ClearChatHistoryStart
    \/ \E f \in ClearFlights : ClearResponse(f)
    \/ streams = <<>> /\ TypeInput(<<"h", "i">>)
    \/ HistoryFlushed /\ streams = <<>> /\ handleSubmit
    \/ \E k \in StreamIds : StreamFetch(k)
    \/ \E k \in StreamIds : streams[k].frames = <<>> /\ ServerSend(k, Chunk(<<"l", "o">>, FALSE))
    \/ \E k \in StreamIds : ServerClose(k)
    \/ \E k \in StreamIds : Deliver(k, Len(streams[k].wire))
    \/ \E k \in StreamIds : EndOfData(k)
    \/ \E k \in StreamIds : ReadError(k)

SpecTurn == InitTurn /\ [][NextTurn]_vars

\* ------------------------------------------------------ the network is down
\* a request in flight that the server refused or that broke on the way
Refused(f) == IF f.op \in {"history", "clear"} THEN f.status # "ok" ELSE ~f.ok

\* every request sent comes back as a failure
OnlyFailures == \A f \in BagToSet(flights') : Refused(f)

\* the effects of the last render have run and nothing is pending: the user
\* starts one operation at a time
Quiet ==
    /\ EffectsFlushed /\ HistoryFlushed
    /\ flights = EmptyBag
    /\ \A k \in StreamIds : streams[k].phase \notin {"Sending", "Streaming"}

\* The providers and the chat of a logged-in identity with its sessions
\* listed and the first of them active, from the moment the network goes
\* down: every public operation, and every request failing. A stream that has
\* started breaks.
NextOffline ==
    \/ TokenEffect /\ OnlyFailures
    \/ HistoryEffect /\ OnlyFailures
    \/ Quiet /\ checkAuth /\ OnlyFailures
    \/ \E t \in AccountTokens : Quiet /\ login(t, MaxTime) /\ OnlyFailures
    \/ \E f \in MeFlights : MeResponse(f) /\ OnlyFailures
    \/ Quiet /\ fetchSessions /\ OnlyFailures
    \/ Quiet /\ createNewSession /\ OnlyFailures
    \/ \E f \in ListFlights : ListResponse(f) /\ OnlyFailures
    \/ \E f \in CreateFlights : CreateResponse(f) /\ OnlyFailures
    \/ \E id \in Ids : Quiet /\ renameSession(id, BlankName, Placeholder) /\ OnlyFailures
    \/ \E f \in RenameFlights : RenameResponse(f) /\ OnlyFailures
    \/ \E id \in Ids : Quiet /\ deleteSession(id) /\ OnlyFailures
    \/ \E f \in DeleteFlights : DeleteResponse(f) /\ OnlyFailures
    \/ \E f \in HistoryFlights : MessagesResponse(f) /\ OnlyFailures
    \/ Quiet /\ ClearChatHistoryStart /\ OnlyFailures
    \/ \E f \in ClearFlights : ClearResponse(f) /\ OnlyFailures
    \/ Quiet /\ streams = <<>> /\ TypeInput(<<"h", "i">>) /\ OnlyFailures
    \/ Quiet /\ streams = <<>> /\ handleSubmit /\ OnlyFailures
    \/ \E k \in StreamIds : StreamFetch(k) /\ OnlyFailures
    \/ \E k \in StreamIds : streams[k].frames = <<>> /\ ServerSend(k, Chunk(<<"l", "o">>, FALSE)) /\ OnlyFailures
    \/ \E k \in StreamIds : Deliver(k, Len(streams[k].wire)) /\ OnlyFailures
    \/ \E k \in StreamIds : ReadError(k) /\ OnlyFailures

SpecOffline == InitTurn /\ [][NextOffline]_vars

\* ------------------------------------------------------- registry claims
UniqueIds(list) ==
    \A i, j \in 1..Len(list) : list[i].session_id = list[j].session_id => i = j

\* C1: in every reachable state the active session pointer is null or carries
\* a sessionId that is present in the session list.
C1_ActiveInList ==
    activeSessionInfo = NoSession \/ activeSessionInfo.session_id \in IdsOf(sessions)

NewestIsActive(deleted) ==
    /\ Len(sessions) >= 1
    /\ Last(sessions).session_id # deleted
    /\ activeSessionInfo = Last(sessions)
    /\ lsActiveId = Last(sessions).session_id
    /\ lsActiveInfo = Last(sessions)

C4_DeleteNeverLeavesEmpty ==
    (ev.op = "deleteReturn" /\ ev.ok /\ userToken # Null) => sessions # <<>>

\* C5: when the creation chained from an empty list response has been sent,
\* the account holds no more than that one session.
C5_OneSessionFromEmptyState ==
    (ev.op = "fetchHealSent" /\ ev.ok) => Len(srvSessions) <= 1

\* C6: every sessionId in the session list occurs exactly once.
C6_UniqueSessionIds == UniqueIds(sessions)

\* ------------------------------------------------- identity session claims
\* C7: in every reachable state isAuthenticated is true exactly when an account
\* token is held whose expiry is still in the future and an identity has been
\* fetched.
C7_AuthenticatedIffValidToken ==
    isAuthenticated <=>
        (userToken # Null /\ ~Expired(lsAuthTokenExpiry) /\ user # Null)

\* C8: no request in flight carries an account token whose stored expiry had
\* passed when the request left the router.
C8_ExpiredTokenNeverSent ==
    \A f \in InFlight : f.req.auth \in AccountBearers => ~f.req.expired

\* ---------------------------------------------------------- router claims
\* the last request is a chat call as the program makes it: one of the three
\* call sites, or any chatbot URL requested without a header of the caller's
ChatCall ==
    \/ ev.op \in {"fetchMessages", "clearChatHistory", "streamRequest"}
    \/ ev.op = "streamFailed" /\ ev.ok
    \/ ev.op = "request" /\ IsChatbotUrl(lastReq.url) /\ lastReq.caller = NoHeader

\* the last request is the session-list call as the program makes it
ListCall ==
    ev.op = "request" /\ lastReq.url = UrlSessions /\ lastReq.method = "get"
        /\ lastReq.caller = NoHeader

\* the tokens of the active session, as stored and as held by the provider
ActiveBearers ==
    {Bearer(t) : t \in {lsActiveInfo.token, activeSessionInfo.token} \ {Null}}

\* C9: a chat call carries the active session's token or no credential, never
\* the account token; the session-list call carries the account token or no
\* credential, never a session token.
C9_TokensKeptApart ==
    /\ ChatCall =>
          /\ lastReq.auth \notin AccountBearers
          /\ lastReq.auth \in {NoHeader} \cup ActiveBearers
    /\ ListCall =>
          /\ lastReq.auth \notin SessionBearers
          /\ lastReq.auth \in {NoHeader} \cup ({Bearer(lsAuthToken)} \cap AccountBearers)

C9_Witness ==
    /\ ev.op = "fetchMessages"
    /\ lsAuthToken \in AccountTokens
    /\ lastReq.auth = Bearer(lsActiveInfo.token)
    /\ lastReq.auth \in SessionBearers

\* the token the routing table selects for the last request
TableToken == RouterToken(lastReq.url, lastReq.method, lsAuthToken, lsActiveInfo)

\* C10: a request on which the caller set an Authorization header leaves the
\* router with that header, whatever its URL and method; the token the routing
\* table selects is attached only when the caller set none.
C10_CallerHeaderWins ==
    /\ lastReq.caller # NoHeader => lastReq.auth = lastReq.caller
    /\ (ev.op = "request" /\ lastReq.caller = NoHeader) =>
          lastReq.auth = (IF TableToken # Null THEN Bearer(TableToken) ELSE NoHeader)

C10_Witness ==
    /\ ev.op = "request"
    /\ lastReq.caller \in SessionBearers
    /\ TableToken \in AccountTokens
    /\ lastReq.auth = lastReq.caller

\* the requests of renameSession and deleteSession that are in flight
MutationFlights == RenameFlights \cup DeleteFlights

C12_NoTokenProceeds ==
    (ev.op \in {"request", "fetchMessages", "clearChatHistory"}
        /\ lastReq.caller = NoHeader /\ TableToken = Null) =>
            /\ lastReq.auth = NoHeader
            /\ lastReq.url \in Urls
            /\ lastReq.method \in Methods

C12_Witness ==
    /\ ev.op = "request"
    /\ lastReq.url = UrlMessages
    /\ lastReq.caller = NoHeader
    /\ lsActiveInfo = NoSession
    /\ lsAuthToken \in AccountTokens
    /\ lastReq.auth = NoHeader

\* ---------------------------------------------------------- stream claims
\* the content of the well-formed records of a stream, in arrival order
RECURSIVE RecordsContent(_)
RecordsContent(frames) ==
    IF frames = <<>> THEN <<>>
    ELSE (IF Head(frames).kind = "record" THEN Head(frames).content ELSE <<>>)
            \o RecordsContent(Tail(frames))

\* every record of the stream is well formed / well formed with done = false
AllRecords(frames) == \A i \in 1..Len(frames) : frames[i].kind = "record"
AllUndone(frames) == AllRecords(frames) /\ \A i \in 1..Len(frames) : ~frames[i].done

\* the stream of the only submission has been read to its end
Completed == streams # <<>> /\ streams[1].phase = "Completed"

\* the content of the assistant placeholder of the only submission
Reply == messages[2].content

\* C13: when a stream of well-formed records with done = false, cut into chunks
\* in any way, has been read to end-of-data, the assistant placeholder holds the
\* concatenation of the records' content in arrival order.
C13_ContentIsConcatenation ==
    (Completed /\ AllUndone(streams[1].frames)) =>
        /\ Len(messages) = 2
        /\ messages[2].role = "assistant"
        /\ Reply = RecordsContent(streams[1].frames)

C13_Witness ==
    /\ Completed
    /\ streams[1].frames = <<Chunk(<<"H", "e", "l">>, FALSE), Chunk(<<"l", "o">>, FALSE)>>
    /\ Reply = <<"H", "e", "l", "l", "o">>

\* C14: once every record the server has sent has been read, the assistant
\* placeholder holds the content of all of them in arrival order, whatever
\* their done flags.
C14_DoneRecordsContribute ==
    (streams # <<>> /\ streams[1].phase \in {"Streaming", "Completed"}
        /\ streams[1].wire = <<>> /\ AllRecords(streams[1].frames)) =>
            Reply = RecordsContent(streams[1].frames)

\* the records that arrive after the first record with done = true
DoneAt(frames) == {i \in 1..Len(frames) : frames[i].kind = "record" /\ frames[i].done}
FirstDone(frames) == CHOOSE i \in DoneAt(frames) : \A j \in DoneAt(frames) : i <= j
AfterDone(frames) == SubSeq(frames, FirstDone(frames) + 1, Len(frames))

\* text ends with suffix
EndsWith(text, suffix) ==
    /\ Len(suffix) <= Len(text)
    /\ SubSeq(text, Len(text) - Len(suffix) + 1, Len(text)) = suffix

\* C15: a record with done = true does not end consumption: a stream is
\* Completed only after end-of-data, and the content of every well-formed
\* record that arrived after the first done = true record has been applied.
C15_ConsumedPastDone ==
    (Completed /\ AllRecords(streams[1].frames) /\ DoneAt(streams[1].frames) # {}) =>
        /\ streams[1].closed
        /\ streams[1].wire = <<>>
        /\ EndsWith(Reply, RecordsContent(AfterDone(streams[1].frames)))

\* C16: a record whose payload does not parse is dropped without ending the
\* stream: after end-of-data the assistant placeholder holds the concatenation
\* of the content of the valid records.
C16_MalformedDropped ==
    (Completed /\ \E i \in 1..Len(streams[1].frames) : streams[1].frames[i] = Malformed) =>
        Reply = RecordsContent(streams[1].frames)

\* C17: when the stream is aborted while it is being read, the abort and the
\* rejection that follows leave the messages as they were (the content already
\* applied is kept and no error message is added), and the stream ends
\* Cancelled with isSending false.
C17_AbortKeepsContent ==
    [][(streams # <<>> /\ streams[1].phase = "Streaming" /\ streams'[1].aborted) =>
          /\ messages' = messages
          /\ streams'[1].phase # "Streaming" =>
                (streams'[1].phase = "Cancelled" /\ ~isSending')]_vars

C17_Witness ==
    /\ streams # <<>>
    /\ streams[1].phase = "Cancelled"
    /\ ev.op = "streamCancelled"
    /\ Len(messages) = 2
    /\ Reply = <<"H", "e", "l">>
    /\ ~isSending

\* the messages of the errors a submission can end with
ErrorMessages == {TokenMissing, HttpError, BodyNull, NetworkError}

\* what a failure leaves alone: everything but the message list and the flags
\* of the submission
ErrorOnlyInMessages == UNCHANGED <<input, authVars, regVars, activeLs>>

\* C18 (as stated): when a submission fails for a reason other than
\* cancellation, an empty placeholder is replaced by the error text, and a
\* placeholder with partial content keeps it and gets the error text appended
\* to it as a suffix; the number of messages does not change.
C18_ErrorAsSuffix ==
    [][ev'.op = "streamFailed" =>
          /\ ErrorOnlyInMessages
          /\ \E m \in ErrorMessages :
                IF Last(messages).content = <<>>
                THEN messages' = [messages EXCEPT ![Len(messages)].content = ErrorText(m)]
                ELSE messages' = [messages EXCEPT ![Len(messages)].content = @ \o ErrorText(m)]]_vars

\* C18 (amended): when a submission fails for a reason other than cancellation,
\* an empty placeholder is replaced by the error text and the number of
\* messages does not change; a placeholder with partial content is kept as it
\* is and a new assistant message holding the error text is appended after it.
C18_ErrorAsNewMessage ==
    [][ev'.op = "streamFailed" =>
          /\ ErrorOnlyInMessages
          /\ \E m \in ErrorMessages :
                IF Last(messages).content = <<>>
                THEN messages' = [messages EXCEPT ![Len(messages)].content = ErrorText(m)]
                ELSE messages' = Append(messages, Msg("assistant", ErrorText(m)))]_vars

C18_Witness ==
    /\ ev.op = "streamFailed"
    /\ Len(messages) = 3
    /\ Reply = <<"H", "e", "l">>
    /\ messages[3] = Msg("assistant", ErrorText(NetworkError))
    /\ ~isSending

\* text holds nothing but white space
Blank(text) == \A i \in 1..Len(text) : text[i] = " "

\* C19: a submit with blank input, with no active session, or while a
\* submission is in flight changes no state and sends no request; any other
\* submit appends exactly one user message holding the input and one empty
\* assistant placeholder and sets isSending, before any request has gone out
\* and before any byte of a response has arrived.
C19_SubmitGuard ==
    [][ev'.op \in {"submitIgnored", "submitAccepted"} =>
          IF Blank(input) \/ isSending \/ activeSessionInfo = NoSession
          THEN /\ ev'.op = "submitIgnored"
               /\ UNCHANGED <<messages, input, isSending, abortRef, streams,
                              lastReq, flights, authVars, regVars, activeLs>>
          ELSE /\ ev'.op = "submitAccepted"
               /\ messages' = messages \o <<[role |-> "user", content |-> input],
                                            [role |-> "assistant", content |-> <<>>]>>
               /\ isSending'
               /\ Len(streams') = Len(streams) + 1
               /\ Last(streams').phase = "Sending"
               /\ Last(streams').wire = <<>>
               /\ UNCHANGED <<lastReq, flights>>]_vars

C19_Witness ==
    /\ ev.op = "submitAccepted"
    /\ messages = <<Msg("user", <<"h", "i">>), Msg("assistant", <<>>)>>
    /\ isSending
    /\ input = <<>>
    /\ streams[1].phase = "Sending"

\* the streams that may still send a request or apply a delta
Live == {k \in StreamIds : streams[k].phase \in {"Sending", "Streaming"} /\ ~streams[k].aborted}

\* C20: at most one chat stream is in flight at any time, and when the request
\* of a stream goes out every stream started before it has terminated or been
\* aborted.
C20_OneStreamInFlight ==
    /\ Cardinality(Live) <= 1
    /\ ev.op = "streamRequest" => \A j \in 1..(ev.sid - 1) : j \notin Live

C20_Witness ==
    /\ Len(streams) = 2
    /\ ev.op = "streamRequest"
    /\ ev.sid = 2
    /\ streams[1].phase = "Cancelled"
    /\ messages[2].content = <<"l", "o">>
    /\ Live = {2}

\* the states a submission ends in
Terminal == {"Completed", "Cancelled", "Failed"}

\* submission k has ended
Ended(k) == k \in StreamIds /\ streams[k].phase \in Terminal

\* C21: every submission that enters Sending eventually reaches Completed,
\* Cancelled or Failed when the transport delivers; the step that ends a
\* submission of the mounted instance leaves isSending false and the abort
\* controller reference cleared.
C21_SubmissionTerminates ==
    /\ \A k \in 1..MaxStreams :
          (k \in StreamIds /\ streams[k].phase = "Sending") ~> Ended(k)
    /\ [][\A k \in StreamIds :
            (~Ended(k) /\ Ended(k)' /\ streams[k].inst = instance) =>
                (~isSending' /\ abortRef' = 0)]_vars

C21_Witness ==
    /\ Len(streams) = 2
    /\ streams[1].phase = "Completed"
    /\ streams[2].inst = streams[1].inst
    /\ ev.op = "submitAccepted"
    /\ isSending

\* ---------------------------------------------------- restoration and names
\* the entries of list that carry the id
EntriesWithId(list, id) == {i \in 1..Len(list) : list[i].session_id = id}

\* C22: a fetchSessions that succeeds with a non-empty list leaves as active
\* session the entry whose id is the one persisted when the response arrived,
\* if there is such an entry, and the last entry of the list otherwise.
C22_RestoresRemembered ==
    [][(ev'.op = "fetchReturn" /\ ev'.ok /\ sessions' # <<>>) =>
          IF lsActiveId # 0 /\ EntriesWithId(sessions', lsActiveId) # {}
          THEN \E i \in EntriesWithId(sessions', lsActiveId) :
                  activeSessionInfo' = sessions'[i]
          ELSE activeSessionInfo' = sessions'[Len(sessions')]]_vars

C22_Witness ==
    /\ ev.op = "fetchReturn"
    /\ ev.ok
    /\ Len(sessions) = 2
    /\ activeSessionInfo = sessions[1]
    /\ lsActiveId = sessions[1].session_id

\* n spaces
Spaces(n) == [i \in 1..n |-> " "]

\* stored is what is left of the requested name without the white space around
\* it, or the placeholder when nothing is left
IsSanitized(requested, stored) ==
    IF Blank(requested)
    THEN stored = Placeholder
    ELSE /\ stored # <<>>
         /\ stored[1] # " "
         /\ stored[Len(stored)] # " "
         /\ \E a, b \in 0..Len(requested) :
               requested = Spaces(a) \o stored \o Spaces(b)

CheckAuthStep == ev'.op \in {"checkAuthSent", "checkAuthPurged", "checkAuthNothing"}

\* the persisted pair is there and its expiry lies strictly in the future
StoredPairValid ==
    /\ lsAuthToken # Null
    /\ lsAuthTokenExpiry # NoExpiry
    /\ lsAuthTokenExpiry > now

LoginFlights == {f \in MeFlights : f.origin = "login"}

\* C25: login persists the pair, holds the token and sends the identity
\* request; when that request fails, the token stays as held and as persisted
\* as it was, the identity is null and isAuthenticated is false; and login
\* always runs to its end: the continuation of each of its requests can run.
C25_LoginKeepsTokenOnFailure ==
    /\ [][(ev'.op = "loginSent") =>
             /\ userToken' \in AccountTokens
             /\ lsAuthToken' = userToken'
             /\ lsAuthTokenExpiry' # NoExpiry
             /\ \E f \in BagToSet(flights') :
                   /\ f \in LoginFlights'
                   /\ f.cToken = userToken'
                   /\ flights' = Sent(f)]_vars
    /\ [][(ev'.op = "loginReturn" /\ ~ev'.ok) =>
             /\ UNCHANGED <<userToken, lsAuthToken, lsAuthTokenExpiry>>
             /\ user' = Null
             /\ ~isAuthenticated']_vars
    /\ [](\A f \in LoginFlights : ENABLED MeResponse(f))

C25_Witness ==
    /\ ev.op = "loginReturn"
    /\ ~ev.ok
    /\ userToken \in AccountTokens
    /\ lsAuthToken = userToken
    /\ lsAuthTokenExpiry > now
    /\ user = Null

\* C26: logout, from whatever state, leaves the token and the identity null
\* and the persisted token, expiry and active-session entries removed, and it
\* sends no request.
C26_LogoutClearsEverything ==
    [][(ev'.op = "logout") =>
          /\ userToken' = Null
          /\ user' = Null
          /\ lsAuthToken' = Null
          /\ lsAuthTokenExpiry' = NoExpiry
          /\ lsActiveId' = 0
          /\ lsActiveInfo' = NoSession
          /\ UNCHANGED <<flights, lastReq>>]_vars

C26_Witness ==
    /\ ev.op = "logout"
    /\ flights # EmptyBag
    /\ userToken = Null
    /\ user = Null
    /\ lsAuthToken = Null
    /\ lsActiveInfo = NoSession

\* C27: in every reachable state the identity is null whenever the account
\* token is null.
C27_NoIdentityWithoutToken == userToken = Null => user = Null

\* the registry's requests that are in flight
RegistryFlights == ListFlights \cup CreateFlights

\* C28: once the registry has reacted to the token becoming null and every
\* request of fetchSessions and createNewSession has settled, the list is
\* empty, the active pointer is null and no active session is persisted.
C28_LoggedOutRegistry ==
    (userToken = Null /\ effectToken = Null /\ RegistryFlights = {}) =>
        /\ sessions = <<>>
        /\ activeSessionInfo = NoSession
        /\ lsActiveId = 0
        /\ lsActiveInfo = NoSession

\* ----------------------------------------------------------------- the page
\* Home returns the chat UI (the sidebar and the chat interface)
HomeRenders == ~(isLoading \/ ~isAuthenticated)

\* the effect of Home calls router.push('/login')
HomeRedirects == ~isLoading /\ ~isAuthenticated

\* the held token is verified: the identity held is the one GET /me gave for it
Verified == userToken # Null /\ user = IdentityOf(Bearer(userToken))

\* C29: the chat UI is rendered only when a token is held whose identity
\* fetch has succeeded, and never while the auth check is running; when the
\* auth check has finished and the held token is not verified, the page
\* redirects to login.
C29_UnlockedOnlyVerified ==
    /\ HomeRenders => (Verified /\ ~isLoading)
    /\ (~isLoading /\ ~Verified) => HomeRedirects

\* ------------------------------------------------------------ history claims
\* every history request has settled and the effect has run for the active
\* session
HistorySettled == HistoryFlushed /\ HistoryFlights = {}

\* C30: once the history fetch of the active session has settled, whatever
\* its outcome, the message list is empty or is the history of the active
\* session: it holds no message of a session that was active before.
C30_NoMessagesOfPreviousSession ==
    (HistorySettled /\ activeSessionInfo # NoSession) =>
        \/ messages = <<>>
        \/ messages = HistoryOf(activeSessionInfo.session_id)

\* the step is fetchMessages running from its await to its end
HistoryReturnStep == ev'.op \in {"historyReturn", "historyNotFound"}

\* what the message list shows of an error
ShowsError(list) ==
    \E i \in 1..Len(list) : list[i].content \in {ErrorText(e) : e \in ErrorMessages}

\* C31: a 404 answer to the history fetch leaves the message list empty, with
\* no error shown in it; whatever the answer, fetchMessages ends with
\* isLoadingMessages false.
C31_NotFoundIsEmptyHistory ==
    [][HistoryReturnStep =>
          \E f \in HistoryFlights :
             /\ flights' = Settled(f)
             /\ ~isLoadingMessages'
             /\ (f.status = "notFound") =>
                    (messages' = <<>> /\ ~ShowsError(messages'))]_vars

C31_Witness ==
    /\ ev.op = "historyNotFound"
    /\ ~ev.wasEmpty
    /\ messages = <<>>
    /\ ~isLoadingMessages

\* ------------------------------------------------- registry operation claims
\* the step is createNewSessionFn running from its await to its end
CreateReturnStep == ev'.op \in {"createReturn", "fetchHealReturn", "deleteHealReturn"}

\* the registry's state and its persisted copy
RegistryState == <<sessions, activeSessionInfo, lsActiveId, lsActiveInfo>>

\* C32: a createNewSession whose request succeeded appends the session the
\* server made at the end of the list, the entries before it kept in order,
\* and makes it the active and the persisted active session; one whose request
\* failed, or that found no account token (and then sent no request), changes
\* neither the list nor the active pointer nor its persisted copy; and its
\* continuation can always run.
C32_CreateAppendsOrLeaves ==
    /\ [][CreateReturnStep =>
             \E f \in CreateFlights :
                /\ flights' = Settled(f)
                /\ f.ok = ev'.ok
                /\ IF f.ok
                   THEN /\ Len(sessions') = Len(sessions) + 1
                        /\ SubSeq(sessions', 1, Len(sessions)) = sessions
                        /\ sessions'[Len(sessions')].session_id = f.data[1].session_id
                        /\ activeSessionInfo' = sessions'[Len(sessions')]
                        /\ lsActiveInfo' = sessions'[Len(sessions')]
                        /\ lsActiveId' = f.data[1].session_id
                   ELSE UNCHANGED RegistryState]_vars
    /\ [][(ev'.op = "createNoToken") =>
             UNCHANGED <<RegistryState, flights, lastReq, srvSessions>>]_vars
    /\ [](\A f \in CreateFlights : ENABLED CreateResponse(f))

C32_Witness ==
    /\ ev.op = "createReturn"
    /\ ev.ok
    /\ ~ev.wasEmpty
    /\ Len(sessions) = 2
    /\ activeSessionInfo = sessions[2]
    /\ lsActiveInfo = sessions[2]

\* a public operation of the registry has run to its end in the last step
RegistrySettled ==
    ev.op \in {"fetchNoToken", "fetchReturn", "fetchHealReturn", "createNoToken",
               "createReturn", "renameReturn", "deleteReturn", "deleteHealReturn",
               "switch"}

\* the persisted id and blob are those of the active pointer, or absent with it
PersistedAgrees ==
    /\ lsActiveInfo = activeSessionInfo
    /\ lsActiveId = activeSessionInfo.session_id

\* C33: switchActiveSession sends no request and touches neither the list nor
\* the server; and whenever an operation of the registry has run to its end,
\* the persisted active-session id and blob are those of the active pointer,
\* and are absent when it is null.
C33_SwitchLocalAndPersisted ==
    /\ [][(ev'.op = "switch") =>
             /\ UNCHANGED <<flights, lastReq, srvSessions, srvNext, sessions>>
             /\ activeSessionInfo'.session_id = ev'.sid]_vars
    /\ [](RegistrySettled => PersistedAgrees)

C33_Witness ==
    /\ ev.op = "switch"
    /\ Len(sessions) = 2
    /\ activeSessionInfo = sessions[1]
    /\ lsActiveInfo = sessions[1]
    /\ lsActiveId = sessions[1].session_id
    /\ flights # EmptyBag

\* --------------------------------------------------------------------- C35
\* the step in which fetchSessions comes back from its list request
ListReturnStep == ev'.op \in {"fetchReturn", "fetchHealSent"}

\* C35: fetchSessions goes on to createNewSession only when its list request
\* succeeded and returned no session; when the list request failed, the list
\* is empty, no session is active and no session-creation request is sent.
C35_HealOnlyAfterEmptyList ==
    [][ListReturnStep =>
          /\ (ev'.op = "fetchHealSent") => (ev'.ok /\ sessions' = <<>>)
          /\ ~ev'.ok => /\ sessions' = <<>>
                        /\ activeSessionInfo' = NoSession
                        /\ BagCardinality(flights') < BagCardinality(flights)]_vars

\* --------------------------------------------------------------------- C36
\* the step in which a successful renameSession or deleteSession writes the list
RenameApplied == ev'.op = "renameReturn" /\ ev'.ok
DeleteApplied == ev'.op \in {"deleteReturn", "deleteHealSent"} /\ ev'.ok

\* C36: overlapping registry requests lose no update. When the response of a
\* rename or a delete is applied, the list it writes holds the sessions the
\* list held just before (those created in the meantime included) except the
\* one deleted, and no session that an earlier delete had already removed.
C36_NoLostUpdate ==
    [][/\ RenameApplied => IdsOf(sessions') = IdsOf(sessions)
       /\ DeleteApplied => IdsOf(sessions') = IdsOf(sessions) \ {ev'.sid}]_vars

\* --------------------------------------------------------------------- C38
\* the last step applied a history response that the server answered (with
\* the history or with 404)
HistoryAnswered == ev.op = "historyNotFound" \/ (ev.op = "historyReturn" /\ ev.ok)

\* C38: when the user switches from one session to another while the history
\* fetch of the first is in flight, then once both fetches have settled the
\* message list is the history of the second session (or empty), whichever
\* response came last.
C38_LatestSessionWins ==
    (HistorySettled /\ HistoryAnswered /\ activeSessionInfo # NoSession) =>
        \/ messages = <<>>
        \/ messages = HistoryOf(activeSessionInfo.session_id)

\* --------------------------------------------------------------------- C40
\* C40: clearChatHistory with an active session sends the clear request with
\* the token of the active session and empties the message list only once
\* the request has succeeded; when the request fails, or when there is no
\* active session token (no request is sent then), the list is unchanged.
C40_ClearOnlyAfterSuccess ==
    /\ [][(ev'.op = "clearSent") =>
             /\ messages' = messages
             /\ lastReq'.url = UrlMessages /\ lastReq'.method = "delete"
             /\ lastReq'.auth = Bearer(activeSessionInfo.token)
             /\ BagCardinality(flights') = BagCardinality(flights) + 1]_vars
    /\ [][(ev'.op = "clearNoToken") =>
             (activeSessionInfo.token = Null /\ UNCHANGED <<messages, flights, lastReq>>)]_vars
    /\ [][(ev'.op = "clearReturn") =>
             /\ BagCardinality(flights') = BagCardinality(flights) - 1
             /\ messages' = IF ev'.ok THEN <<>> ELSE messages]_vars

C40_Witness ==
    /\ ev.op = "clearReturn"
    /\ ev.ok
    /\ ~ev.wasEmpty
    /\ messages = <<>>
    /\ activeSessionInfo # NoSession

\* --------------------------------------------------------------------- C37
\* a message of a fetched history with more text after it
ExtendsHistory(content) ==
    Len(content) > 1 /\ \E i \in Ids : Head(content) = IdStr(i)

\* C37: the deltas of a stream go only to the assistant placeholder of the
\* submission that started it. When the active session changes or the message
\* list is replaced or cleared during the stream, no later delta of it is
\* written into a message of another session or turn: the messages of a
\* fetched history stay as the server gave them.
C37_StreamWritesOwnTurn ==
    \A i \in 1..Len(messages) : ~ExtendsHistory(messages[i].content)

\* --------------------------------------------------------------------- C39
\* the step in which renameSession or deleteSession returns after a failed request
MutationFailed == ev'.op \in {"renameReturn", "deleteReturn"} /\ ~ev'.ok

\* C39: a successful deleteSession of a session that is not the active one
\* removes that entry only, keeps the order of the others and leaves the
\* active session and its persisted copy as they are; a successful delete of
\* the active session with others remaining makes the last remaining entry
\* active; a failed rename or delete leaves the list, the active session and
\* its persisted copy unchanged.
C39_DeleteFrame ==
    [][/\ DeleteApplied =>
             /\ sessions' = RemainingSessions(sessions, ev'.sid)
             /\ IF activeSessionInfo.session_id # ev'.sid
                THEN UNCHANGED <<activeSessionInfo, lsActiveId, lsActiveInfo>>
                ELSE sessions' # <<>> => activeSessionInfo' = Last(sessions')
       /\ MutationFailed => UNCHANGED RegistryState]_vars

\* --------------------------------------------------------------------- C34
\* the code that runs when the request f comes back
Continuation(f) ==
    \/ MeResponse(f)
    \/ ListResponse(f)
    \/ CreateResponse(f)
    \/ RenameResponse(f)
    \/ DeleteResponse(f)
    \/ MessagesResponse(f)
    \/ ClearResponse(f)

\* the events of an operation that returns after its last request
RequestReturns ==
    {"checkAuthReturn", "loginReturn", "fetchReturn", "fetchHealReturn", "createReturn",
     "renameReturn", "deleteReturn", "deleteHealReturn", "historyReturn",
     "historyNotFound", "clearReturn"}

====
